---- MODULE Spec2Model ----
(***************************************************************************)
(* A model of webexteamsdk.models: the SparkData JSON projection object    *)
(* (sparkdata.py) and the Team / Webhook / License property mixins.        *)
(*                                                                         *)
(* Python values live on a heap of dict and list cells, so that aliasing   *)
(* between the object's internal mapping, the copies it hands out and the  *)
(* wrappers it builds is what the code makes it.  JSON text is a sequence  *)
(* of tokens (lexing and whitespace are abstracted); json.loads and        *)
(* json.dumps are a parser and a serializer over tokens.                   *)
(***************************************************************************)
EXTENDS Integers, Sequences, FiniteSets, TLC

\* ------------------------------------------------------------------ bounds
\* Heap cells (dicts and lists) the operations may allocate in one run.
MaxAlloc == 4
\* Mutations the caller applies to values it was handed.
MaxMut == 1

\* ------------------------------------------------------------------ values
\* A Python value: a scalar, or a reference to a dict or list cell of the heap.
\* Every value is a record of the same shape.
Null == [t |-> "null", n |-> 0, s |-> ""]
BoolV(b) == [t |-> "bool", n |-> IF b THEN 1 ELSE 0, s |-> ""]
IntV(i) == [t |-> "int", n |-> i, s |-> ""]
StrV(x) == [t |-> "str", n |-> 0, s |-> x]
DictRef(a) == [t |-> "dict", n |-> a, s |-> ""]
ListRef(a) == [t |-> "list", n |-> a, s |-> ""]
\* A reference to a Python object (an instance of a SparkData class).
ObjRef(o) == [t |-> "obj", n |-> o, s |-> ""]

IsDict(v) == v.t = "dict"

\* A heap cell.  A dict keeps its keys in insertion order (ks) beside their
\* values (vs); a list keeps its elements in vs.
DictCell(ks, vs) == [kind |-> "dict", ks |-> ks, vs |-> vs]
ListCell(vs) == [kind |-> "list", ks |-> <<>>, vs |-> vs]

\* The heap is the sequence of the cells allocated so far; a cell's address is
\* its position, and cells are never freed.
EmptyHeap == <<>>
NextFree(h) == Len(h) + 1
Alloc(h, c) == Append(h, c)

\* Position of key k in a key sequence, 0 when absent.
IndexOf(ks, k) == IF \E i \in 1..Len(ks) : ks[i] = k THEN CHOOSE i \in 1..Len(ks) : ks[i] = k ELSE 0
KeysOf(h, a) == {h[a].ks[i] : i \in 1..Len(h[a].ks)}
HasKey(h, a, k) == IndexOf(h[a].ks, k) # 0
Lookup(h, a, k) == h[a].vs[IndexOf(h[a].ks, k)]
\* dict.get(k): the value, None when the key is missing.
DictGet(h, a, k) == IF HasKey(h, a, k) THEN Lookup(h, a, k) ELSE Null

\* d[k] = v on a cell: an existing key keeps its position.
CellPut(c, k, v) ==
    IF IndexOf(c.ks, k) # 0
    THEN [c EXCEPT !.vs[IndexOf(c.ks, k)] = v]
    ELSE [c EXCEPT !.ks = Append(c.ks, k), !.vs = Append(c.vs, v)]
RemoveAt(s, i) == [j \in 1..(Len(s) - 1) |-> IF j < i THEN s[j] ELSE s[j + 1]]
\* del d[k] on a cell holding k.
CellDel(c, k) == [c EXCEPT !.ks = RemoveAt(c.ks, IndexOf(c.ks, k)), !.vs = RemoveAt(c.vs, IndexOf(c.ks, k))]

\* ------------------------------------------------------------------ JSON text
Tk(k) == [tk |-> k, s |-> "", n |-> 0]
TS(x) == [tk |-> "str", s |-> x, n |-> 0]
TN(i) == [tk |-> "int", s |-> "", n |-> i]

ParseFail(h) == [ok |-> FALSE, val |-> Null, pos |-> 0, h |-> h]
ParseOk(v, p, h) == [ok |-> TRUE, val |-> v, pos |-> p, h |-> h]

RECURSIVE ParseValue(_, _, _)
RECURSIVE ParseMembers(_, _, _, _)
RECURSIVE ParseElems(_, _, _, _)

\* json.loads on the value starting at token i: the value, the next position
\* and the heap holding the cells it built (object_hook=OrderedDict keeps the
\* members in the text's order).
ParseValue(toks, i, h) ==
    IF i > Len(toks) THEN ParseFail(h)
    ELSE LET t == toks[i] IN
         CASE t.tk = "str" -> ParseOk(StrV(t.s), i + 1, h)
           [] t.tk = "int" -> ParseOk(IntV(t.n), i + 1, h)
           [] t.tk = "true" -> ParseOk(BoolV(TRUE), i + 1, h)
           [] t.tk = "false" -> ParseOk(BoolV(FALSE), i + 1, h)
           [] t.tk = "null" -> ParseOk(Null, i + 1, h)
           [] t.tk = "{" ->
                IF i + 1 <= Len(toks) /\ toks[i + 1].tk = "}"
                THEN ParseOk(DictRef(NextFree(h)), i + 2, Alloc(h, DictCell(<<>>, <<>>)))
                ELSE ParseMembers(toks, i + 1, h, DictCell(<<>>, <<>>))
           [] t.tk = "[" ->
                IF i + 1 <= Len(toks) /\ toks[i + 1].tk = "]"
                THEN ParseOk(ListRef(NextFree(h)), i + 2, Alloc(h, ListCell(<<>>)))
                ELSE ParseElems(toks, i + 1, h, <<>>)
           [] OTHER -> ParseFail(h)

\* The members of an object from the key at token i on; c is the dict so far.
ParseMembers(toks, i, h, c) ==
    IF i + 1 > Len(toks) \/ toks[i].tk # "str" \/ toks[i + 1].tk # ":" THEN ParseFail(h)
    ELSE LET r == ParseValue(toks, i + 2, h) IN
         IF ~r.ok \/ r.pos > Len(toks) THEN ParseFail(h)
         ELSE LET c2 == CellPut(c, toks[i].s, r.val) IN
              CASE toks[r.pos].tk = "," -> ParseMembers(toks, r.pos + 1, r.h, c2)
                [] toks[r.pos].tk = "}" -> ParseOk(DictRef(NextFree(r.h)), r.pos + 1, Alloc(r.h, c2))
                [] OTHER -> ParseFail(h)

\* The elements of an array from token i on; vs is the list so far.
ParseElems(toks, i, h, vs) ==
    LET r == ParseValue(toks, i, h) IN
    IF ~r.ok \/ r.pos > Len(toks) THEN ParseFail(h)
    ELSE LET vs2 == Append(vs, r.val) IN
         CASE toks[r.pos].tk = "," -> ParseElems(toks, r.pos + 1, r.h, vs2)
           [] toks[r.pos].tk = "]" -> ParseOk(ListRef(NextFree(r.h)), r.pos + 1, Alloc(r.h, ListCell(vs2)))
           [] OTHER -> ParseFail(h)

\* json.loads(text): one value and nothing after it, or a failure.
Loads(toks, h) ==
    LET r == ParseValue(toks, 1, h) IN
    IF r.ok /\ r.pos = Len(toks) + 1 THEN r ELSE ParseFail(h)

RECURSIVE Dumps(_, _)
RECURSIVE DumpsMembers(_, _, _)
RECURSIVE DumpsElems(_, _, _)

\* json.dumps(v): the tokens of v's JSON text, a dict's members in its key order.
Dumps(h, v) ==
    CASE v.t = "str" -> <<TS(v.s)>>
      [] v.t = "int" -> <<TN(v.n)>>
      [] v.t = "bool" -> <<Tk(IF v.n = 1 THEN "true" ELSE "false")>>
      [] v.t = "null" -> <<Tk("null")>>
      [] v.t = "dict" -> <<Tk("{")>> \o DumpsMembers(h, h[v.n], 1) \o <<Tk("}")>>
      [] v.t = "list" -> <<Tk("[")>> \o DumpsElems(h, h[v.n].vs, 1) \o <<Tk("]")>>
      [] OTHER -> <<Tk("<object>")>>

DumpsMembers(h, c, i) ==
    IF i > Len(c.ks) THEN <<>>
    ELSE (IF i > 1 THEN <<Tk(",")>> ELSE <<>>) \o <<TS(c.ks[i]), Tk(":")>> \o Dumps(h, c.vs[i])
         \o DumpsMembers(h, c, i + 1)

DumpsElems(h, vs, i) ==
    IF i > Len(vs) THEN <<>>
    ELSE (IF i > 1 THEN <<Tk(",")>> ELSE <<>>) \o Dumps(h, vs[i]) \o DumpsElems(h, vs, i + 1)

RECURSIVE DeepEq(_, _, _)
\* Python's == on two values: dicts by key set and values, lists elementwise.
DeepEq(h, v, w) ==
    IF v.t # w.t THEN FALSE
    ELSE CASE v.t = "dict" ->
                /\ KeysOf(h, v.n) = KeysOf(h, w.n)
                /\ \A i \in 1..Len(h[v.n].ks) : DeepEq(h, h[v.n].vs[i], Lookup(h, w.n, h[v.n].ks[i]))
           [] v.t = "list" ->
                /\ Len(h[v.n].vs) = Len(h[w.n].vs)
                /\ \A i \in 1..Len(h[v.n].vs) : DeepEq(h, h[v.n].vs[i], h[w.n].vs[i])
           [] OTHER -> v = w

\* ------------------------------------------------------------------ classes
\* A class is SparkData itself or SparkData with one mixin: Team, Webhook, License.
TeamBasicPropertiesMixin == {"id", "name", "created", "creatorId"}
WebhookBasicPropertiesMixin ==
    {"id", "name", "targetUrl", "resource", "event", "filter", "secret", "orgId",
     "createdBy", "appId", "ownedBy", "status", "created"}
LicenseBasicPropertiesMixin == {"id", "name", "totalUnits", "consumedUnits"}

\* The properties a class declares (each reads the JSON key of its own name).
Props(cls) ==
    CASE cls = "Team" -> TeamBasicPropertiesMixin
      [] cls = "Webhook" -> WebhookBasicPropertiesMixin
      [] cls = "License" -> LicenseBasicPropertiesMixin
      [] OTHER -> {}

\* ------------------------------------------------------------------ inputs
\* The payloads of a run, as JSON text.
PayloadWebhook ==
    <<Tk("{"), TS("id"), Tk(":"), TS("w1"), Tk(","), TS("status"), Tk(":"), TS("active"), Tk(","),
      TS("filter"), Tk(":"), Tk("["), Tk("{"), TS("k"), Tk(":"), TN(1), Tk("}"), Tk(","), Tk("true"), Tk("]"), Tk("}")>>
PayloadLicense == <<Tk("{"), TS("totalUnits"), Tk(":"), TN(10), Tk(","), TS("consumedUnits"), Tk(":"), TN(3), Tk("}")>>
PayloadNested ==
    <<Tk("{"), TS("a"), Tk(":"), Tk("{"), TS("b"), Tk(":"), Tk("{"), TS("c"), Tk(":"), TN(1), Tk("}"), Tk("}"), Tk("}")>>
PayloadNamedMap ==
    <<Tk("{"), TS("name"), Tk(":"), Tk("{"), TS("x"), Tk(":"), TN(1), Tk("}"), Tk(","), TS("id"), Tk(":"), Tk("null"), Tk(","),
      TS("created"), Tk(":"), Tk("false"), Tk("}")>>
\* The JSON object texts among the texts below.
ObjectTexts == {PayloadWebhook, PayloadLicense, PayloadNested, PayloadNamedMap}
TextArray == <<Tk("["), TN(1), Tk(","), TN(2), Tk("]")>>
TextString == <<TS("not a json object")>>
TextNumber == <<TN(10)>>
TextTruncated == <<Tk("{"), TS("id"), Tk(":")>>
TextWords == <<Tk("not"), Tk("a"), Tk("json"), Tk("object")>>

\* The runs: the class the caller instantiates and the payload it holds.
Cases ==
    {<<"Webhook", PayloadWebhook>>, <<"License", PayloadLicense>>, <<"Team", PayloadNamedMap>>,
     <<"SparkData", PayloadNested>>,
     <<"SparkData", TextArray>>, <<"Team", TextString>>, <<"License", TextNumber>>,
     <<"Webhook", TextTruncated>>, <<"SparkData", TextWords>>}

\* Names no payload holds: one a mixin declares, one no class declares.
AbsentNames == {"secret", "nope"}

\* ------------------------------------------------------------------ state
VARIABLES
    heap,     \* the dict and list cells
    kind,     \* the class the caller instantiates
    objs,     \* the SparkData instances: <<[cls, data]>>, data the address of _json_data
    origin,   \* per instance, how it came to be (history)
    snap,     \* per instance, the JSON text of its mapping right after construction (history)
    wrapped,  \* per __getattr__ call that returned a wrapper, the call and the wrapper (history)
    text,     \* the payload the caller holds as JSON text
    arg,      \* the same payload as the caller's native value
    held,     \* the dicts json_data and to_dict have handed to the caller, and by which instance
    muts,     \* mutations the caller has applied
    last      \* what the last operation did and returned

vars == <<heap, kind, objs, origin, snap, wrapped, text, arg, held, muts, last>>

\* A constructor argument: a Python str (JSON text, by its tokens) or any other
\* native value.
TextInput(toks) == [form |-> "text", val |-> Null, toks |-> toks]
NativeInput(v) == [form |-> "native", val |-> v, toks |-> <<>>]

NoResult ==
    [op |-> "none", obj |-> 0, item |-> "", st |-> "ok", val |-> Null, out |-> <<>>, exc |-> "", msg |-> <<>>,
     input |-> NativeInput(Null)]
Returned(op, o, item, v) == [NoResult EXCEPT !.op = op, !.obj = o, !.item = item, !.val = v]
ReturnedText(op, o, toks) == [NoResult EXCEPT !.op = op, !.obj = o, !.out = toks]
Raised(op, o, item, exc, msg) ==
    [NoResult EXCEPT !.op = op, !.obj = o, !.item = item, !.st = "raise", !.exc = exc, !.msg = msg]

\* The cells of the caller's payload.  The parser allocates a container after
\* its contents, so the payload's outermost cell is its last.
PayloadCells == IF arg.t \in {"dict", "list"} THEN arg.n ELSE 0
\* An operation runs when the cells it allocates fit the run's budget.
Fits(h) == Len(h) - PayloadCells <= MaxAlloc

\* ------------------------------------------------------------------ construction
\* utils.json_dict: a mapping is copied (its nested cells shared), JSON text is
\* parsed and must describe an object, anything else is a TypeError (the
\* spec's InvalidDataType).
json_dict(input, h) ==
    IF input.form = "text"
    THEN LET r == Loads(input.toks, h) IN
         IF r.ok /\ IsDict(r.val) THEN [ok |-> TRUE, addr |-> r.val.n, h |-> r.h]
         ELSE [ok |-> FALSE, addr |-> 0, h |-> h]
    ELSE IF IsDict(input.val)
         THEN [ok |-> TRUE, addr |-> NextFree(h), h |-> Alloc(h, DictCell(h[input.val.n].ks, h[input.val.n].vs))]
         ELSE [ok |-> FALSE, addr |-> 0, h |-> h]

\* A constructor that swallows the error and starts from an empty mapping.
SparkDataInitDefault(input, h) ==
    IF json_dict(input, h).ok THEN json_dict(input, h)
    ELSE [ok |-> TRUE, addr |-> NextFree(h), h |-> Alloc(h, DictCell(<<>>, <<>>))]

\* SparkData.__init__: self._json_data = json_dict(json_data).
SparkDataInit(input, h) == json_dict(input, h)

\* What the caller can pass: its payload as text or as a native value, or a
\* mapping it was handed.
Inputs == {TextInput(text), NativeInput(arg)} \cup {NativeInput(d.ref) : d \in held}

\* cls(json_data), called by the caller.
Construct(cls, input) ==
    /\ LET r == SparkDataInit(input, heap) IN
       IF r.ok
       THEN /\ Fits(r.h)
            /\ heap' = r.h
            /\ objs' = Append(objs, [cls |-> cls, data |-> r.addr])
            /\ origin' = Append(origin, [how |-> "construct", parent |-> 0, key |-> "", input |-> input])
            /\ snap' = Append(snap, Dumps(r.h, DictRef(r.addr)))
            /\ last' = [Returned("construct", Len(objs) + 1, "", ObjRef(Len(objs) + 1)) EXCEPT !.input = input]
       ELSE /\ last' = [Raised("construct", 0, "", "TypeError", <<>>) EXCEPT !.input = input]
            /\ UNCHANGED <<heap, objs, origin, snap>>
    /\ UNCHANGED <<kind, wrapped, text, arg, held, muts>>

\* ------------------------------------------------------------------ attribute access
\* A wrapper of the class of the object it was read from.
WrapperClassOfSelf(cls) == cls

\* The class of the wrapper __getattr__ builds: SparkData(item_data).
WrapperClass(cls) == "SparkData"

\* Never wrapping: the nested dict itself is returned.
ShouldWrapNever(item_data) == FALSE
\* Wrapping lists as well as dicts.
ShouldWrapContainers(item_data) == item_data.t \in {"dict", "list"}

\* isinstance(item_data, dict).
ShouldWrap(item_data) == IsDict(item_data)

\* return SparkData(item_data): a new instance on every call; an exception of
\* the constructor propagates.
FreshWrapper(o, item, item_data) ==
    LET r == SparkDataInit(NativeInput(item_data), heap) IN
    IF r.ok
    THEN /\ Fits(r.h)
         /\ heap' = r.h
         /\ objs' = Append(objs, [cls |-> WrapperClass(objs[o].cls), data |-> r.addr])
         /\ origin' = Append(origin, [how |-> "wrap", parent |-> o, key |-> item, input |-> NativeInput(item_data)])
         /\ snap' = Append(snap, Dumps(r.h, DictRef(r.addr)))
         /\ wrapped' = Append(wrapped, [obj |-> o, item |-> item, ref |-> ObjRef(Len(objs) + 1)])
         /\ last' = Returned("getattr", o, item, ObjRef(Len(objs) + 1))
         /\ UNCHANGED <<kind, text, arg, held, muts>>
    ELSE /\ last' = Raised("getattr", o, item, "TypeError", <<>>)
         /\ UNCHANGED <<heap, kind, objs, origin, snap, wrapped, text, arg, held, muts>>

\* A __getattr__ that keeps the wrapper it built for a key and returns it again.
WrapperCached(o, item, item_data) ==
    IF \E i \in DOMAIN wrapped : wrapped[i].obj = o /\ wrapped[i].item = item
    THEN LET w == wrapped[CHOOSE i \in DOMAIN wrapped : wrapped[i].obj = o /\ wrapped[i].item = item].ref IN
         /\ wrapped' = Append(wrapped, [obj |-> o, item |-> item, ref |-> w])
         /\ last' = Returned("getattr", o, item, w)
         /\ UNCHANGED <<heap, kind, objs, origin, snap, text, arg, held, muts>>
    ELSE FreshWrapper(o, item, item_data)

\* The wrapping branch of __getattr__.
Wrapper(o, item, item_data) == FreshWrapper(o, item, item_data)

\* A __getattr__ that answers None for a missing key.
MissingAsNone(o, item) == Returned("getattr", o, item, Null)

\* raise AttributeError("'<class>' object has no attribute '<item>'").
MissingAttribute(o, item) ==
    Raised("getattr", o, item, "AttributeError", <<"'", objs[o].cls, "' object has no attribute '", item, "'">>)

\* SparkData.__getattr__(item).
GetAttr(o, item) ==
    IF HasKey(heap, objs[o].data, item)
    THEN LET item_data == Lookup(heap, objs[o].data, item) IN
         IF ShouldWrap(item_data)
         THEN Wrapper(o, item, item_data)
         ELSE /\ last' = Returned("getattr", o, item, item_data)
              /\ UNCHANGED <<heap, kind, objs, origin, snap, wrapped, text, arg, held, muts>>
    ELSE /\ last' = MissingAttribute(o, item)
         /\ UNCHANGED <<heap, kind, objs, origin, snap, wrapped, text, arg, held, muts>>

\* Every property reading the key 'id'.
PropertyValueOfId(h, a, p) == DictGet(h, a, "id")

\* What a declared property returns: self._json_data.get('<name>').
PropertyValue(h, a, p) == DictGet(h, a, p)

\* A property that indexes the mapping, raising for a missing key.
PropertyResultStrict(o, p) ==
    IF HasKey(heap, objs[o].data, p) THEN Returned("property", o, p, Lookup(heap, objs[o].data, p))
    ELSE Raised("property", o, p, "KeyError", <<p>>)

\* The outcome of reading declared property p.
PropertyResult(o, p) == Returned("property", o, p, PropertyValue(heap, objs[o].data, p))

\* Reading declared property p of a mixin class (found before __getattr__).
Property(o, p) ==
    /\ p \in Props(objs[o].cls)
    /\ last' = PropertyResult(o, p)
    /\ UNCHANGED <<heap, kind, objs, origin, snap, wrapped, text, arg, held, muts>>

\* ------------------------------------------------------------------ views
\* self._json_data.copy(): a new dict with the same keys, in order, and the
\* same values (nested cells are shared).
CopyOf(h, a) == DictCell(h[a].ks, h[a].vs)

\* A dict of the keys alone.
DictOfKeys(h, a) == DictCell(h[a].ks, [i \in 1..Len(h[a].ks) |-> Null])

\* dict(self._json_data): likewise a new dict sharing the values.
DictOf(h, a) == DictCell(h[a].ks, h[a].vs)

\* The json_data property.
JsonData(o) ==
    /\ Fits(Alloc(heap, CopyOf(heap, objs[o].data)))
    /\ heap' = Alloc(heap, CopyOf(heap, objs[o].data))
    /\ held' = held \cup {[ref |-> DictRef(NextFree(heap)), src |-> o]}
    /\ last' = Returned("json_data", o, "", DictRef(NextFree(heap)))
    /\ UNCHANGED <<kind, objs, origin, snap, wrapped, text, arg, muts>>

\* to_dict().
ToDict(o) ==
    /\ Fits(Alloc(heap, DictOf(heap, objs[o].data)))
    /\ heap' = Alloc(heap, DictOf(heap, objs[o].data))
    /\ held' = held \cup {[ref |-> DictRef(NextFree(heap)), src |-> o]}
    /\ last' = Returned("to_dict", o, "", DictRef(NextFree(heap)))
    /\ UNCHANGED <<kind, objs, origin, snap, wrapped, text, arg, muts>>

\* to_json(): json.dumps(self._json_data).
ToJson(o) ==
    /\ last' = ReturnedText("to_json", o, Dumps(heap, DictRef(objs[o].data)))
    /\ UNCHANGED <<heap, kind, objs, origin, snap, wrapped, text, arg, held, muts>>

\* __str__: the class name, a colon, the (indented) JSON text.
Str(o) ==
    /\ last' = ReturnedText("str", o, <<Tk(objs[o].cls), Tk(":")>> \o Dumps(heap, DictRef(objs[o].data)))
    /\ UNCHANGED <<heap, kind, objs, origin, snap, wrapped, text, arg, held, muts>>

\* __repr__: the class name and, in parentheses, the quoted JSON text.
Repr(o) ==
    /\ last' = ReturnedText("repr", o, <<Tk(objs[o].cls), Tk("("), Tk("'")>> \o Dumps(heap, DictRef(objs[o].data))
                                        \o <<Tk("'"), Tk(")")>>)
    /\ UNCHANGED <<heap, kind, objs, origin, snap, wrapped, text, arg, held, muts>>

\* ------------------------------------------------------------------ the caller
\* The cells a cell refers to.
Refs(h, a) == {h[a].vs[i].n : i \in {j \in 1..Len(h[a].vs) : h[a].vs[j].t \in {"dict", "list"}}}

RECURSIVE Closure(_, _, _)
\* The cells reachable from the cells S in at most n steps.
Closure(h, S, n) == IF n = 0 THEN S ELSE Closure(h, S \cup UNION {Refs(h, a) : a \in S}, n - 1)

\* The cells the caller reaches through the dicts it was handed.
Reach == Closure(heap, {d.ref.n : d \in held}, Len(heap))

\* What the caller writes, and the key it adds.
MutVals == {IntV(99)}
NewKey == "zz"

\* d[k] = v on a dict the caller reaches (a new key or an existing one).
CallerSetKey(a, k, v) ==
    /\ muts < MaxMut
    /\ heap[a].kind = "dict"
    /\ heap' = [heap EXCEPT ![a] = CellPut(heap[a], k, v)]
    /\ muts' = muts + 1
    /\ last' = Returned("setkey", 0, k, DictRef(a))
    /\ UNCHANGED <<kind, objs, origin, snap, wrapped, text, arg, held>>

\* del d[k] on a dict the caller reaches.
CallerDelKey(a, k) ==
    /\ muts < MaxMut
    /\ heap[a].kind = "dict"
    /\ IndexOf(heap[a].ks, k) # 0
    /\ heap' = [heap EXCEPT ![a] = CellDel(heap[a], k)]
    /\ muts' = muts + 1
    /\ last' = Returned("delkey", 0, k, DictRef(a))
    /\ UNCHANGED <<kind, objs, origin, snap, wrapped, text, arg, held>>

\* l.append(v) on a list the caller reaches.
CallerAppend(a, v) ==
    /\ muts < MaxMut
    /\ heap[a].kind = "list"
    /\ heap' = [heap EXCEPT ![a].vs = Append(@, v)]
    /\ muts' = muts + 1
    /\ last' = Returned("append", 0, "", ListRef(a))
    /\ UNCHANGED <<kind, objs, origin, snap, wrapped, text, arg, held>>

\* ------------------------------------------------------------------ specification
\* The caller holds one payload, as JSON text and (when the text is valid and
\* is not a bare string, which Python would take for text) as a native value.
Init ==
    \E case \in Cases :
        LET r == Loads(case[2], EmptyHeap) IN
        /\ kind = case[1]
        /\ text = case[2]
        /\ heap = r.h
        /\ arg = IF r.ok /\ r.val.t # "str" THEN r.val ELSE Null
        /\ objs = <<>>
        /\ origin = <<>>
        /\ snap = <<>>
        /\ wrapped = <<>>
        /\ held = {}
        /\ muts = 0
        /\ last = NoResult

Objs == 1..Len(objs)

\* The operations of the classes.
NextOps ==
    \/ \E input \in Inputs : Construct(kind, input)
    \/ \E o \in Objs : \E item \in KeysOf(heap, objs[o].data) \cup AbsentNames : GetAttr(o, item)
    \/ \E o \in Objs : \E p \in Props(objs[o].cls) : Property(o, p)
    \/ \E o \in Objs : JsonData(o)
    \/ \E o \in Objs : ToDict(o)
    \/ \E o \in Objs : ToJson(o)
    \/ \E o \in Objs : Str(o)
    \/ \E o \in Objs : Repr(o)

\* What the caller does to the dicts and lists it reaches.
NextCaller ==
    \/ \E a \in Reach, v \in MutVals : \E k \in KeysOf(heap, a) \cup {NewKey} : CallerSetKey(a, k, v)
    \/ \E a \in Reach : \E k \in KeysOf(heap, a) : CallerDelKey(a, k)
    \/ \E a \in Reach, v \in MutVals : CallerAppend(a, v)

Next == NextOps \/ NextCaller

\* The operations with a caller that also mutates what it was handed.
Spec == Init /\ [][Next]_vars

\* The operations alone.
SpecOps == Init /\ [][NextOps]_vars

\* ------------------------------------------------------------------ properties
\* The mapping instance o holds, and its value for a key.
DataOf(o) == DictRef(objs[o].data)
Stored(o, k) == Lookup(heap, objs[o].data, k)
Has(o, k) == HasKey(heap, objs[o].data, k)

\* C1: whatever was read and whatever the caller did to the dicts it was
\* handed (top-level or nested), every instance's mapping is still the one it
\* held right after construction.
C1_MappingNeverChanges == \A o \in Objs : Dumps(heap, DataOf(o)) = snap[o]

\* C2: a declared property never raises and answers None when its key is
\* missing, while generic access to a missing name no class declares raises
\* AttributeError.
C2_PropertyNoneGetattrRaises ==
    /\ last.op = "property" =>
          /\ last.st = "ok"
          /\ ~Has(last.obj, last.item) => last.val = Null
    /\ (last.op = "getattr" /\ last.item \notin Props(objs[last.obj].cls) /\ ~Has(last.obj, last.item)) =>
          /\ last.st = "raise"
          /\ last.exc = "AttributeError"

C2_WebhookSecretMissing ==
    /\ last.op = "property" /\ objs[last.obj].cls = "Webhook" /\ last.item = "secret"
    /\ ~Has(last.obj, "secret") /\ last.st = "ok" /\ last.val = Null

\* C3: generic access to a name that is no key of the mapping raises
\* AttributeError, the message carries the class name of the instance and the
\* name asked for, and the mapping is as it was.
C3_MissingNameRaises ==
    (last.op = "getattr" /\ ~Has(last.obj, last.item)) =>
        /\ last.st = "raise"
        /\ last.exc = "AttributeError"
        /\ last.msg = <<"'", objs[last.obj].cls, "' object has no attribute '", last.item, "'">>
        /\ Dumps(heap, DataOf(last.obj)) = snap[last.obj]

C3_RaisedOnTeam ==
    /\ last.op = "getattr" /\ last.st = "raise" /\ last.item = "nope"
    /\ objs[last.obj].cls = "Team" /\ last.msg[2] = "Team" /\ last.msg[4] = "nope"

\* C4: generic access to a key whose value is a dict returns a new instance,
\* not the dict, whose mapping (and whose to_dict()) equals that dict; at any
\* depth, wrappers of wrappers included.
C4_NestedMapIsWrapped ==
    /\ (last.op = "getattr" /\ Has(last.obj, last.item) /\ IsDict(Stored(last.obj, last.item))) =>
          /\ last.st = "ok"
          /\ last.val = ObjRef(Len(objs))
          /\ origin[Len(objs)].how = "wrap" /\ origin[Len(objs)].parent = last.obj
          /\ origin[Len(objs)].key = last.item
          /\ DeepEq(heap, DataOf(Len(objs)), Stored(last.obj, last.item))
    /\ (last.op = "to_dict" /\ origin[last.obj].how = "wrap") =>
          DeepEq(heap, last.val, Stored(origin[last.obj].parent, origin[last.obj].key))

\* a.b on nested maps, then to_dict() of the wrapper: it equals m[a][b].
C4_ChainedToDict ==
    /\ last.op = "to_dict" /\ origin[last.obj].how = "wrap" /\ origin[last.obj].key = "b"
    /\ origin[origin[last.obj].parent].how = "wrap" /\ origin[origin[last.obj].parent].key = "a"
    /\ Dumps(heap, last.val) = <<Tk("{"), TS("c"), Tk(":"), TN(1), Tk("}")>>

\* C5: generic access to a key whose value is no dict returns that very value;
\* a list comes back as the stored list, its dict elements plain dicts, and no
\* instance is built.
C5_OtherValuesUnchanged ==
    (last.op = "getattr" /\ Has(last.obj, last.item) /\ ~IsDict(Stored(last.obj, last.item))) =>
        /\ last.st = "ok"
        /\ last.val = Stored(last.obj, last.item)
        /\ last.val.t = "list" => \A i \in 1..Len(heap[last.val.n].vs) : heap[last.val.n].vs[i].t # "obj"
        /\ \A w \in Objs : ~(origin[w].how = "wrap" /\ origin[w].parent = last.obj /\ origin[w].key = last.item)

C5_ListWithMapElement ==
    /\ last.op = "getattr" /\ last.item = "filter" /\ last.st = "ok" /\ last.val.t = "list"
    /\ heap[last.val.n].vs[1].t = "dict"

\* The inputs the constructor is to accept: a dict, or the text of a JSON object.
ValidInput(input) == IF input.form = "text" THEN input.toks \in ObjectTexts ELSE input.val.t = "dict"

C7_ToDictRoundTrip ==
    (last.op = "to_dict" /\ origin[last.obj].how = "construct" /\ origin[last.obj].input.form = "native") =>
        /\ DeepEq(heap, last.val, origin[last.obj].input.val)
        /\ \A d \in held : d.ref = origin[last.obj].input.val => DeepEq(heap, last.val, DataOf(d.src))

C7_SecondToDict ==
    /\ last.op = "to_dict" /\ origin[last.obj].how = "construct"
    /\ \E d \in held :
          /\ d.ref = origin[last.obj].input.val /\ d.src # last.obj
          /\ Has(d.src, "name") /\ IsDict(Stored(d.src, "name"))
    /\ Dumps(heap, last.val) = PayloadNamedMap

\* C8 as stated: a declared property whose key is present returns what generic
\* access to that key returns, an instance wrapping the dict when the value is
\* a dict.
C8_PropertyIsGetField ==
    (last.op = "property" /\ Has(last.obj, last.item)) =>
        IF ShouldWrap(Stored(last.obj, last.item))
        THEN last.val.t = "obj" /\ DeepEq(heap, DataOf(last.val.n), Stored(last.obj, last.item))
        ELSE last.val = Stored(last.obj, last.item)

\* C8 amended: a declared property whose key is present returns the stored
\* value itself; generic access to the same key returns that same value when
\* it is no dict and, when it is a dict, an instance whose mapping equals it.
C8_PropertyReadsStoredValue ==
    /\ (last.op = "property" /\ Has(last.obj, last.item)) =>
          /\ last.st = "ok"
          /\ last.val = Stored(last.obj, last.item)
    /\ (last.op = "getattr" /\ last.item \in Props(objs[last.obj].cls) /\ Has(last.obj, last.item)) =>
          IF IsDict(Stored(last.obj, last.item))
          THEN /\ last.val.t = "obj"
               /\ DeepEq(heap, DataOf(last.val.n), PropertyValue(heap, objs[last.obj].data, last.item))
          ELSE last.val = PropertyValue(heap, objs[last.obj].data, last.item)

C8_PropertyReturnsRawMap ==
    /\ last.op = "property" /\ objs[last.obj].cls = "Team" /\ last.item = "name"
    /\ last.val.t = "dict" /\ last.val = Stored(last.obj, "name")

\* C9: every generic access to a key holding a dict returns an instance no
\* earlier access returned; the instances returned for one key hold equal
\* mappings, equal to the stored dict; and no mapping holds an instance.
C9_WrappersFreshUncached ==
    /\ \A i, j \in DOMAIN wrapped : i # j => wrapped[i].ref # wrapped[j].ref
    /\ \A i \in DOMAIN wrapped :
          DeepEq(heap, DataOf(wrapped[i].ref.n), Stored(wrapped[i].obj, wrapped[i].item))
    /\ \A i, j \in DOMAIN wrapped :
          (wrapped[i].obj = wrapped[j].obj /\ wrapped[i].item = wrapped[j].item) =>
              DeepEq(heap, DataOf(wrapped[i].ref.n), DataOf(wrapped[j].ref.n))
    /\ \A a \in DOMAIN heap : \A i \in 1..Len(heap[a].vs) : heap[a].vs[i].t # "obj"

C9_TwoAccessesOfOneKey ==
    \E i, j \in DOMAIN wrapped :
        /\ i # j /\ wrapped[i].obj = wrapped[j].obj /\ wrapped[i].item = wrapped[j].item
        /\ wrapped[i].ref # wrapped[j].ref

\* C10 as stated: the wrapper built for a nested dict has the class of the
\* instance it was read from.
C10_WrapperHasClassOfSelf ==
    \A w \in Objs : origin[w].how = "wrap" => objs[w].cls = objs[origin[w].parent].cls

\* C10 amended: the wrapper built for a nested dict is a SparkData, whatever
\* the class of the instance it was read from, and an AttributeError the
\* wrapper raises names SparkData.
C10_WrapperIsSparkData ==
    /\ \A w \in Objs : origin[w].how = "wrap" => objs[w].cls = "SparkData"
    /\ (last.op = "getattr" /\ last.st = "raise" /\ last.exc = "AttributeError" /\ origin[last.obj].how = "wrap") =>
          last.msg[2] = "SparkData"

C10_TeamWrapperRaises ==
    /\ last.op = "getattr" /\ last.st = "raise" /\ origin[last.obj].how = "wrap"
    /\ objs[origin[last.obj].parent].cls = "Team" /\ last.msg[2] = "SparkData"

====
